---- MODULE Spec2Model ----
(***************************************************************************)
(* The connection and message-routing layer of backend/server.py:          *)
(* ConnectionManager (the two registries), the dashboard and device        *)
(* WebSocket handlers, and the two command endpoints (control_pin,         *)
(* trigger_ota_update).                                                    *)
(*                                                                         *)
(* The server is one asyncio event loop: a coroutine runs without          *)
(* interruption from one `await` to the next.  Every action below is one   *)
(* such run: it starts where an awaited operation completes (or raises)    *)
(* and ends at the next await, or where the handler returns or dies of an  *)
(* uncaught exception.  The effect of an awaited store operation is        *)
(* applied in the step that resumes from it, so two writes that are in     *)
(* flight together take effect in either order.                            *)
(***************************************************************************)
EXTENDS Integers, Sequences, FiniteSets, TLC

\* ---------------------------------------------------------------- bounds
NumDevConns  == 2    \* device connections /ws/device/... opened in a run
NumDashConns == 2    \* dashboard connections /ws/dashboard/... opened in a run
MaxReadings  == 1    \* sensor readings the store holds
MaxCalls     == 3    \* calls of connect/disconnect made on the manager itself

DevConns  == 1..NumDevConns
DashConns == 1..NumDashConns
NoConn    == 0

\* ------------------------------------------------------------ the store
None       == "None"
DeviceIds  == {"d1", "d2", "d3"}        \* d3 has no record in db.devices
Tokens     == {"t1", "t2"}
Users      == {"u1", "u2"}
FirmwareIds == {"f1", "f9"}             \* f9 has no record in db.firmware_versions

\* db.devices as create_device leaves it: the records, their owner and token.
StoredDevices == {"d1", "d2"}
DeviceToken == [d \in StoredDevices |-> IF d = "d1" THEN "t1" ELSE "t2"]
DeviceOwner == [d \in StoredDevices |-> IF d = "d1" THEN "u1" ELSE "u2"]
StoredFirmware == {"f1"}
DefaultFirmwareVersion == "1.0.0"

\* ---------------------------------------------------------------- state
VARIABLES
    active_connections,  \* ConnectionManager.active_connections: a dict, in entry order
    device_connections,  \* ConnectionManager.device_connections: device_id -> handle
    db_devices,          \* db.devices: device_id -> [status, last_seen, firmware_version]
    db_sensor_data,      \* db.sensor_data: the inserted readings, in order
    dash,                \* the websocket_dashboard task of each dashboard connection
    dev,                 \* the websocket_device task of each device connection
    req,                 \* the HTTP request in progress (control_pin / trigger_ota_update)
    workload,            \* what the clients of this run do (fixed through the run)
    call                 \* the last call of connect/disconnect made on the manager itself

vars == <<active_connections, device_connections, db_devices, db_sensor_data,
          dash, dev, req, workload, call>>

\* ------------------------------------------------- a Python dict, in order
(* active_connections is iterated while other tasks change it, so it is kept
   as CPython keeps a dict: an array of entries in insertion order, where a
   deleted entry leaves a hole and a new key is appended at the end.  (The
   array is only compacted when the table is resized, which takes more
   insertions than the connections of a run make.) *)
Hole == [key |-> None, ws |-> NoConn]

DictHas(d, k) == \E i \in DOMAIN d : d[i].key = k

DictLen(d) == Cardinality({i \in DOMAIN d : d[i].key # None})

DictValues(d) == {d[i].ws : i \in {j \in DOMAIN d : d[j].key # None}}

DictSet(d, k, v) ==
    IF DictHas(d, k)
    THEN [i \in DOMAIN d |-> IF d[i].key = k THEN [key |-> k, ws |-> v] ELSE d[i]]
    ELSE Append(d, [key |-> k, ws |-> v])

DictDel(d, k) == [i \in DOMAIN d |-> IF d[i].key = k THEN Hole ELSE d[i]]

\* ------------------------------------------------------ ConnectionManager
\* A registry that is one dict for both kinds of client.
ConnectUsersShared(ac, websocket, client_id, client_type) ==
    DictSet(ac, client_id, websocket)

\* A disconnect that removes the id from the user partition whatever the kind.
DisconnectUsersAnyType(ac, client_id, client_type) ==
    IF DictHas(ac, client_id) THEN DictDel(ac, client_id) ELSE ac

\* connect(), after `await websocket.accept()`: the two registries afterwards.
ConnectUsers(ac, websocket, client_id, client_type) ==
    IF client_type = "device" THEN ac ELSE DictSet(ac, client_id, websocket)

ConnectDevices(dc, websocket, client_id, client_type) ==
    IF client_type = "device" THEN [dc EXCEPT ![client_id] = websocket] ELSE dc

\* disconnect(): the two registries afterwards.
DisconnectUsers(ac, client_id, client_type) ==
    IF client_type = "device" THEN ac
    ELSE IF DictHas(ac, client_id) THEN DictDel(ac, client_id) ELSE ac

DisconnectDevices(dc, client_id, client_type) ==
    IF client_type = "device"
    THEN IF dc[client_id] # NoConn THEN [dc EXCEPT ![client_id] = NoConn] ELSE dc
    ELSE dc

\* --------------------------------------------------- dashboard connections
(* net is the state of the client's end: "ok", "stalled" (the client no
   longer reads, a send to it does not complete) or "gone" (closed: a send
   to it raises, and receive_text raises WebSocketDisconnect). *)
DashIdle == [pc |-> "idle", user_id |-> None, net |-> "ok"]

\* A client opens /ws/dashboard/{user_id}; the handler awaits accept().
DashOpen(u, user_id) ==
    /\ u <= workload.dashboards
    /\ dash[u].pc = "idle"
    /\ dash' = [dash EXCEPT ![u] = [pc |-> "accept", user_id |-> user_id, net |-> "ok"]]
    /\ UNCHANGED <<active_connections, device_connections, db_devices,
                   db_sensor_data, dev, req, workload, call>>

\* accept() completes: manager.connect registers the handle, the loop awaits a frame.
DashAccept(u) ==
    /\ dash[u].pc = "accept"
    /\ active_connections' = ConnectUsers(active_connections, u, dash[u].user_id, "user")
    /\ device_connections' = ConnectDevices(device_connections, u, dash[u].user_id, "user")
    /\ dash' = [dash EXCEPT ![u].pc = "receive_text"]
    /\ UNCHANGED <<db_devices, db_sensor_data, dev, req, workload, call>>

\* The dashboard client stops reading.
DashStall(u) ==
    /\ dash[u].pc = "receive_text"
    /\ dash[u].net = "ok"
    /\ dash' = [dash EXCEPT ![u].net = "stalled"]
    /\ UNCHANGED <<active_connections, device_connections, db_devices,
                   db_sensor_data, dev, req, workload, call>>

\* The dashboard client closes its end.
DashClientClose(u) ==
    /\ dash[u].pc = "receive_text"
    /\ dash[u].net # "gone"
    /\ dash' = [dash EXCEPT ![u].net = "gone"]
    /\ UNCHANGED <<active_connections, device_connections, db_devices,
                   db_sensor_data, dev, req, workload, call>>

\* receive_text raises WebSocketDisconnect: the except clause runs disconnect.
DashDisconnect(u) ==
    /\ dash[u].pc = "receive_text"
    /\ dash[u].net = "gone"
    /\ active_connections' = DisconnectUsers(active_connections, dash[u].user_id, "user")
    /\ device_connections' = DisconnectDevices(device_connections, dash[u].user_id, "user")
    /\ dash' = [dash EXCEPT ![u].pc = "returned"]
    /\ UNCHANGED <<db_devices, db_sensor_data, dev, req, workload, call>>

\* receive_text raises something else (the client sent a binary frame: KeyError):
\* nothing catches it, the handler dies, the server closes the socket.
DashRaise(u) ==
    /\ dash[u].pc = "receive_text"
    /\ dash[u].net # "gone"
    /\ dash' = [dash EXCEPT ![u].pc = "raised", ![u].net = "gone"]
    /\ UNCHANGED <<active_connections, device_connections, db_devices,
                   db_sensor_data, dev, req, workload, call>>

\* ------------------------------------------------------- broadcast_to_users
\* The events sent to dashboards: the dicts built at the four call sites.
NoEvent == [type |-> None, device_id |-> None, status |-> None, data |-> None,
            version |-> None]

StatusEvent(device_id, status) ==
    [type |-> "device_status", device_id |-> device_id, status |-> status,
     data |-> None, version |-> None]

SensorEvent(device_id, data) ==
    [type |-> "sensor_data", device_id |-> device_id, status |-> None,
     data |-> data, version |-> None]

FirmwareEvent(device_id, status, version) ==
    [type |-> "firmware_update_status", device_id |-> device_id, status |-> status,
     data |-> None, version |-> version]

(* A call of broadcast_to_users in progress.  site is the call site
   ("online", "frame", "offline"); pos, used and len are the iterator of
   active_connections.values() (CPython's di_pos, di_used and len); target is
   the handle whose send_json is awaited.  start, sent and failed record the
   handles registered when the call began, those whose send completed and
   those whose send raised; ended says how the call ended ("returned" or
   "raised"). *)
NoBroadcast == [site |-> None, message |-> NoEvent, pos |-> 0, used |-> 0, len |-> 0,
                target |-> NoConn, start |-> {}, sent |-> {}, failed |-> {},
                ended |-> None]

\* The iterator's __next__: <<"yield", index>>, <<"stop", 0>> or <<"error", 0>>
\* (RuntimeError: the dictionary changed during iteration).
DictIterNext(d, it) ==
    LET live == {i \in DOMAIN d : i > it.pos /\ d[i].key # None}
        i == IF live = {} THEN 0 ELSE CHOOSE j \in live : \A k \in live : j <= k
    IN  IF it.used # DictLen(d) THEN <<"error", 0>>
        ELSE IF live = {} THEN <<"stop", 0>>
        ELSE IF it.len = 0 THEN <<"error", 0>>
        ELSE <<"yield", i>>

\* --------------------------------------------------------- device connections
(* The frames a device client can send.  wire is what arrives: a text frame
   holding a JSON object, a JSON array or no JSON at all, or a binary frame.
   For an object, type, data, status, version and device_id are its keys
   (None: absent). *)
NonDict == "5"
NoFrame == [wire |-> None, type |-> None, data |-> None, status |-> None,
            version |-> None, device_id |-> None]
ObjectFrames ==
    {[wire |-> "object", type |-> "sensor_data", data |-> p, status |-> None,
      version |-> None, device_id |-> None] : p \in {None, "p1", NonDict}}
    \cup {[wire |-> "object", type |-> "firmware_update_status", data |-> None,
           status |-> st, version |-> "2.0.0", device_id |-> None] :
              st \in {"success", "failed"}}
    \cup {[wire |-> "object", type |-> ty, data |-> None, status |-> None,
           version |-> None, device_id |-> None] : ty \in {"ping", None}}
Frames ==
    ObjectFrames
    \cup {[wire |-> w, type |-> None, data |-> None, status |-> None,
           version |-> None, device_id |-> None] : w \in {"array", "garbage", "binary"}}

\* Frames that name another device in a device_id key of their own.
ForeignFrames ==
    {[wire |-> "object", type |-> "sensor_data", data |-> "p2", status |-> None,
      version |-> None, device_id |-> "d2"],
     [wire |-> "object", type |-> "firmware_update_status", data |-> None,
      status |-> "success", version |-> "6.6.6", device_id |-> "d2"]}

\* Frames of every kind the loop body tells apart: the two it acts on (here
\* naming another device), a firmware report that is no success, and frames
\* of another type or of none.
SessionFrames ==
    ForeignFrames
    \cup {f \in ObjectFrames : /\ f.type # "sensor_data"
                               /\ f.type = "firmware_update_status" => f.status = "failed"}

\* message.get('data', {})
MessageData(message) == IF message.data = None THEN "{}" ELSE message.data

(* The task of one connection.  pc names the await the handler is suspended
   in, or how it ended: "closed" (returned after close(4001)), "returned"
   (returned after the except clause), "raised" (died of an exception no
   clause catches).  message is the handler's local variable.  admitted,
   seq (the order of registration), evicted (the handle its registration
   replaced), cleanups (entries into the except
   clause), exc (the exception that ended the loop) and cause (what raised
   it) record the session's history. *)
DevIdle == [pc |-> "idle", device_id |-> None, auth_token |-> None, close_code |-> 0,
            message |-> NoFrame, bc |-> NoBroadcast, admitted |-> FALSE, seq |-> 0,
            evicted |-> NoConn, cleanups |-> 0, exc |-> None, cause |-> None]

\* The lookup with the token left out of the query.
FindDeviceIgnoringToken(device_id, auth_token) == device_id \in StoredDevices

\* db.devices.find_one({'id': device_id, 'auth_token': auth_token})
FindDeviceByToken(device_id, auth_token) ==
    device_id \in StoredDevices /\ DeviceToken[device_id] = auth_token

\* An exception leaves a call of broadcast_to_users in progress.
BroadcastRaised(bc, cause) ==
    [bc EXCEPT !.ended = "raised", !.pos = 0, !.used = 0, !.len = 0, !.target = NoConn,
               !.failed = IF cause = "recipient" THEN {bc.target} ELSE {}]

\* The handler dies of exception e raised by `cause`.
Raised(r, e, cause) ==
    [r EXCEPT !.pc = "raised", !.exc = e, !.cause = cause,
              !.bc = IF r.pc = "send_json" \/ cause = "iterate"
                     THEN BroadcastRaised(@, cause) ELSE @]

\* broadcast_to_users returns to its call site: the loop reads the next frame,
\* or (after the except clause) the handler returns.
BroadcastReturn(r) ==
    [r EXCEPT !.pc = IF r.bc.site = "offline" THEN "returned" ELSE "receive_text",
              !.bc = [@ EXCEPT !.ended = "returned", !.pos = 0, !.used = 0,
                               !.len = 0, !.target = NoConn]]

\* The for loop of broadcast_to_users takes its next handle and awaits its send.
BroadcastNext(r) ==
    LET n == DictIterNext(active_connections, r.bc)
    IN  CASE n[1] = "yield" ->
               [r EXCEPT !.pc = "send_json", !.bc.pos = n[2], !.bc.len = @ - 1,
                         !.bc.target = active_connections[n[2]].ws]
          [] n[1] = "stop" -> BroadcastReturn(r)
          [] OTHER -> Raised(r, "RuntimeError", "iterate")

\* A call of broadcast_to_users(message) from `site`, up to its first await.
BroadcastStart(r, message, site) ==
    BroadcastNext([r EXCEPT !.bc = [site |-> site, message |-> message, pos |-> 0,
                                    used |-> DictLen(active_connections),
                                    len |-> DictLen(active_connections),
                                    target |-> NoConn,
                                    start |-> DictValues(active_connections),
                                    sent |-> {}, failed |-> {}, ended |-> None]])

\* A handler that also reads its next frame while a broadcast of its own is sending.
AwaitsFrameOrSend(r) == r.pc \in {"receive_text", "send_json"}

\* The handler is suspended in `await websocket.receive_text()`.
AwaitsFrame(r) == r.pc = "receive_text"

\* A loop body that sends frames of other types on to the dashboards.
OtherFrameForwarded(r, f) ==
    BroadcastStart([r EXCEPT !.message = f],
                   [NoEvent EXCEPT !.type = f.type, !.device_id = r.device_id], "frame")

\* The loop body for a frame whose type matches neither branch: nothing but
\* the assignment of `message`, then the next receive_text.
OtherFrame(r, f) == [r EXCEPT !.message = f]

\* A reading filed under the device_id the frame names, when it names one.
SensorDocFromFrame(r) ==
    [device_id |-> IF r.message.device_id # None THEN r.message.device_id
                   ELSE r.device_id,
     data |-> MessageData(r.message)]

\* SensorData(device_id=device_id, data=message.get('data', {})).model_dump()
SensorDoc(r) == [device_id |-> r.device_id, data |-> MessageData(r.message)]

\* A device client opens /ws/device/{device_id}/{auth_token}; the handler awaits find_one.
DevOpen(c, device_id, auth_token) ==
    /\ c <= workload.devices
    /\ device_id \in workload.device_ids
    /\ dev[c].pc = "idle"
    /\ dev' = [dev EXCEPT ![c] = [DevIdle EXCEPT !.pc = "find_one",
                                                 !.device_id = device_id,
                                                 !.auth_token = auth_token]]
    /\ UNCHANGED <<active_connections, device_connections, db_devices,
                   db_sensor_data, dash, req, workload, call>>

\* find_one completes: no record, close(code=4001) and return; else await accept().
DevVerify(c) ==
    /\ dev[c].pc = "find_one"
    /\ \/ /\ ~FindDeviceByToken(dev[c].device_id, dev[c].auth_token)
          /\ dev' = [dev EXCEPT ![c].pc = "closed", ![c].close_code = 4001]
       \/ /\ FindDeviceByToken(dev[c].device_id, dev[c].auth_token)
          /\ dev' = [dev EXCEPT ![c].pc = "accept"]
       \/ dev' = [dev EXCEPT ![c] = Raised(@, "StoreError", "store")]
    /\ UNCHANGED <<active_connections, device_connections, db_devices,
                   db_sensor_data, dash, req, workload, call>>

\* accept() completes: manager.connect registers the handle; await update_one(online).
DevAccept(c) ==
    /\ dev[c].pc = "accept"
    /\ device_connections' = ConnectDevices(device_connections, c, dev[c].device_id, "device")
    /\ active_connections' = ConnectUsers(active_connections, c, dev[c].device_id, "device")
    /\ dev' = [dev EXCEPT ![c].pc = "update_online", ![c].admitted = TRUE,
                          ![c].evicted = device_connections[dev[c].device_id],
                          ![c].seq = 1 + Cardinality({x \in DevConns : dev[x].admitted})]
    /\ UNCHANGED <<db_devices, db_sensor_data, dash, req, workload, call>>

\* update_one(status online) completes: broadcast device_status online, then the loop.
DevSetOnline(c) ==
    /\ dev[c].pc = "update_online"
    /\ \/ /\ db_devices' = [db_devices EXCEPT ![dev[c].device_id].status = "online",
                                              ![dev[c].device_id].last_seen = c]
          /\ dev' = [dev EXCEPT ![c] = BroadcastStart(@, StatusEvent(@.device_id, "online"),
                                                      "online")]
       \/ /\ dev' = [dev EXCEPT ![c] = Raised(@, "StoreError", "store")]
          /\ UNCHANGED db_devices
    /\ UNCHANGED <<active_connections, device_connections, db_sensor_data, dash, req, workload, call>>

\* The except WebSocketDisconnect clause up to its first await:
\* manager.disconnect, then update_one(status offline) is awaited.
ExceptDisconnect(r, cause) ==
    [r EXCEPT !.pc = "update_offline", !.cleanups = @ + 1,
              !.exc = "WebSocketDisconnect", !.cause = cause,
              !.bc = IF r.pc = "send_json" THEN BroadcastRaised(@, cause) ELSE @]

\* receive_text raises WebSocketDisconnect: the device client closed its end.
DevClientDisconnect(c) ==
    /\ dev[c].pc = "receive_text"
    /\ device_connections' = DisconnectDevices(device_connections, dev[c].device_id, "device")
    /\ active_connections' = DisconnectUsers(active_connections, dev[c].device_id, "device")
    /\ dev' = [dev EXCEPT ![c] = ExceptDisconnect(@, "client")]
    /\ UNCHANGED <<db_devices, db_sensor_data, dash, req, workload, call>>

\* receive_text returns frame f (or raises on it); the loop body runs to its next await.
DevReceive(c, f) ==
    /\ f \in workload.frames
    /\ AwaitsFrame(dev[c])
    /\ \/ /\ f.wire = "binary"              \* message["text"]: KeyError
          /\ dev' = [dev EXCEPT ![c] = Raised(@, "KeyError", "frame")]
       \/ /\ f.wire = "garbage"             \* json.loads: JSONDecodeError
          /\ dev' = [dev EXCEPT ![c] = Raised(@, "JSONDecodeError", "frame")]
       \/ /\ f.wire = "array"               \* message.get: AttributeError
          /\ dev' = [dev EXCEPT ![c] = Raised([@ EXCEPT !.message = f],
                                              "AttributeError", "frame")]
       \/ /\ f.wire = "object" /\ f.type = "sensor_data" /\ f.data = NonDict
          /\ dev' = [dev EXCEPT ![c] = Raised([@ EXCEPT !.message = f],
                                              "ValidationError", "frame")]
       \/ /\ f.wire = "object" /\ f.type = "sensor_data" /\ f.data # NonDict
          /\ Len(db_sensor_data) < MaxReadings
          /\ dev' = [dev EXCEPT ![c].message = f, ![c].pc = "insert_one"]
       \/ /\ f.wire = "object" /\ f.type = "firmware_update_status"
          /\ f.status = "success"
          /\ dev' = [dev EXCEPT ![c].message = f, ![c].pc = "update_firmware"]
       \/ /\ f.wire = "object" /\ f.type = "firmware_update_status"
          /\ f.status # "success"
          /\ dev' = [dev EXCEPT ![c] =
                       BroadcastStart([@ EXCEPT !.message = f],
                                      FirmwareEvent(@.device_id, f.status, f.version),
                                      "frame")]
       \/ /\ f.wire = "object"
          /\ f.type \notin {"sensor_data", "firmware_update_status"}
          /\ dev' = [dev EXCEPT ![c] = OtherFrame(@, f)]
    /\ UNCHANGED <<active_connections, device_connections, db_devices,
                   db_sensor_data, dash, req, workload, call>>

\* insert_one(sensor reading) completes: broadcast sensor_data.
DevInsert(c) ==
    /\ dev[c].pc = "insert_one"
    /\ \/ /\ db_sensor_data' = Append(db_sensor_data, SensorDoc(dev[c]))
          /\ dev' = [dev EXCEPT ![c] =
                       BroadcastStart(@, SensorEvent(@.device_id, MessageData(@.message)),
                                      "frame")]
       \/ /\ dev' = [dev EXCEPT ![c] = Raised(@, "StoreError", "store")]
          /\ UNCHANGED db_sensor_data
    /\ UNCHANGED <<active_connections, device_connections, db_devices, dash, req,
                   workload, call>>

\* update_one(firmware_version) completes: broadcast firmware_update_status.
DevUpdateFirmware(c) ==
    /\ dev[c].pc = "update_firmware"
    /\ \/ /\ db_devices' = [db_devices EXCEPT ![dev[c].device_id].firmware_version =
                                                 dev[c].message.version]
          /\ dev' = [dev EXCEPT ![c] =
                       BroadcastStart(@, FirmwareEvent(@.device_id, @.message.status,
                                                       @.message.version), "frame")]
       \/ /\ dev' = [dev EXCEPT ![c] = Raised(@, "StoreError", "store")]
          /\ UNCHANGED db_devices
    /\ UNCHANGED <<active_connections, device_connections, db_sensor_data, dash, req, workload, call>>

\* update_one(status offline) completes: broadcast device_status offline, then return.
DevSetOffline(c) ==
    /\ dev[c].pc = "update_offline"
    /\ \/ /\ db_devices' = [db_devices EXCEPT ![dev[c].device_id].status = "offline",
                                              ![dev[c].device_id].last_seen = c]
          /\ dev' = [dev EXCEPT ![c] = BroadcastStart(@, StatusEvent(@.device_id, "offline"),
                                                      "offline")]
       \/ /\ dev' = [dev EXCEPT ![c] = Raised(@, "StoreError", "store")]
          /\ UNCHANGED db_devices
    /\ UNCHANGED <<active_connections, device_connections, db_sensor_data, dash, req, workload, call>>

\* The awaited connection.send_json(message) of broadcast_to_users completes or raises.
\* What a send to a closed socket raises depends on the server library's version.
DevBroadcastSend(c) ==
    /\ dev[c].pc = "send_json"
    /\ \/ /\ dash[dev[c].bc.target].net = "ok"
          /\ dev' = [dev EXCEPT ![c] = BroadcastNext([@ EXCEPT !.bc.sent =
                                                        @ \cup {dev[c].bc.target}])]
          /\ UNCHANGED device_connections
       \/ /\ dash[dev[c].bc.target].net = "gone"
          /\ dev[c].bc.site = "frame"
          /\ device_connections' =
                DisconnectDevices(device_connections, dev[c].device_id, "device")
          /\ dev' = [dev EXCEPT ![c] = ExceptDisconnect(@, "recipient")]
       \/ /\ dash[dev[c].bc.target].net = "gone"
          /\ dev[c].bc.site # "frame"
          /\ dev' = [dev EXCEPT ![c] = Raised(@, "WebSocketDisconnect", "recipient")]
          /\ UNCHANGED device_connections
       \/ /\ dash[dev[c].bc.target].net = "gone"
          /\ dev' = [dev EXCEPT ![c] = Raised(@, "RuntimeError", "recipient")]
          /\ UNCHANGED device_connections
    /\ UNCHANGED <<active_connections, db_devices, db_sensor_data, dash, req, workload, call>>

\* ------------------------------------------------------- command endpoints
(* One HTTP request at a time: control_pin or trigger_ota_update, called by
   the authenticated user `user`.  status_code is the response: 200 (the
   handler returned its message), 404 (HTTPException) or 500 (an exception
   left the handler, exc); delivered says whether the device got the command. *)
ReqIdle == [pc |-> "idle", op |-> None, user |-> None, device_id |-> None,
            firmware_id |-> None, target |-> NoConn, delivered |-> FALSE,
            status_code |-> 0, exc |-> None]

\* db.devices.find_one({'id': device_id, 'user_id': current_user.id})
FindDeviceByOwner(device_id, user) ==
    device_id \in StoredDevices /\ DeviceOwner[device_id] = user

\* db.firmware_versions.find_one({'id': firmware_id})
FindFirmware(firmware_id) == firmware_id \in StoredFirmware

\* send_to_device without its membership test: the lookup of an absent key raises.
SendToDeviceUnchecked(r) ==
    IF device_connections[r.device_id] # NoConn
    THEN [r EXCEPT !.pc = "send_json", !.target = device_connections[r.device_id]]
    ELSE [r EXCEPT !.pc = "raised"]

\* send_to_device, up to its await: with a handle for device_id its send_json
\* is awaited; with none the call returns at once ("sent_nothing").
SendToDevice(r) ==
    IF device_connections[r.device_id] # NoConn
    THEN [r EXCEPT !.pc = "send_json", !.target = device_connections[r.device_id]]
    ELSE [r EXCEPT !.pc = "sent_nothing"]

\* An endpoint that answers 404 when the device has no handle.
ReqDispatchOrNotFound(r) ==
    IF device_connections[r.device_id] # NoConn
    THEN [r EXCEPT !.pc = "send_json", !.target = device_connections[r.device_id]]
    ELSE [r EXCEPT !.pc = "returned", !.status_code = 404]

\* The endpoint calls send_to_device; when that returns it returns its message
\* (an exception leaving send_to_device leaves the endpoint too: 500).
ReqDispatch(r) ==
    LET s == SendToDevice(r)
    IN  CASE s.pc = "send_json" -> s
          [] s.pc = "sent_nothing" -> [s EXCEPT !.pc = "returned", !.status_code = 200]
          [] OTHER -> [s EXCEPT !.pc = "returned", !.status_code = 500,
                                !.exc = "SendError"]

ReqStart(op, user, device_id, firmware_id) ==
    /\ workload.requests
    /\ req.pc \in {"idle", "returned"}
    /\ req' = [ReqIdle EXCEPT !.pc = "find_device", !.op = op, !.user = user,
                              !.device_id = device_id, !.firmware_id = firmware_id]
    /\ UNCHANGED <<active_connections, device_connections, db_devices,
                   db_sensor_data, dash, dev, workload, call>>

\* find_one(device) completes: 404, or the next lookup, or the dispatch.
ReqFindDevice ==
    /\ req.pc = "find_device"
    /\ \/ /\ ~FindDeviceByOwner(req.device_id, req.user)
          /\ req' = [req EXCEPT !.pc = "returned", !.status_code = 404]
       \/ /\ FindDeviceByOwner(req.device_id, req.user)
          /\ req.op = "trigger_ota_update"
          /\ req' = [req EXCEPT !.pc = "find_firmware"]
       \/ /\ FindDeviceByOwner(req.device_id, req.user)
          /\ req.op = "control_pin"
          /\ req' = ReqDispatch(req)
       \/ req' = [req EXCEPT !.pc = "returned", !.status_code = 500,
                             !.exc = "StoreError"]
    /\ UNCHANGED <<active_connections, device_connections, db_devices,
                   db_sensor_data, dash, dev, workload, call>>

\* find_one(firmware) completes: 404, or the dispatch.
ReqFindFirmware ==
    /\ req.pc = "find_firmware"
    /\ \/ /\ ~FindFirmware(req.firmware_id)
          /\ req' = [req EXCEPT !.pc = "returned", !.status_code = 404]
       \/ /\ FindFirmware(req.firmware_id)
          /\ req' = ReqDispatch(req)
       \/ req' = [req EXCEPT !.pc = "returned", !.status_code = 500,
                             !.exc = "StoreError"]
    /\ UNCHANGED <<active_connections, device_connections, db_devices,
                   db_sensor_data, dash, dev, workload, call>>

\* The awaited send_json of send_to_device completes (the device gets the
\* command) or raises (its socket is closed); the endpoint returns.
ReqSend ==
    /\ req.pc = "send_json"
    /\ \/ /\ dev[req.target].pc \notin {"closed", "returned", "raised"}
          /\ req' = [req EXCEPT !.pc = "returned", !.delivered = TRUE,
                                !.status_code = 200]
       \/ req' = [req EXCEPT !.pc = "returned", !.status_code = 500,
                             !.exc = "SendError"]
    /\ UNCHANGED <<active_connections, device_connections, db_devices,
                   db_sensor_data, dash, dev, workload, call>>

\* ------------------------------------------ the manager, called directly
(* connect and disconnect called on the manager itself, with any handle, any
   id and either kind, the same id being used for a dashboard and a device.
   call records the last call: its arguments, whether the id had an entry in
   the partition of its kind when it was made, and how many calls were made. *)
ClientIds == {"d1", "d2"}
ClientTypes == {"user", "device"}
Handles == 1..NumDevConns

NoCall == [op |-> None, websocket |-> NoConn, client_id |-> None, client_type |-> None,
           present |-> FALSE, n |-> 0]

\* client_id in self.device_connections / self.active_connections
Registered(client_id, client_type) ==
    IF client_type = "device" THEN device_connections[client_id] # NoConn
    ELSE DictHas(active_connections, client_id)

\* manager.connect(websocket, client_id, client_type), from where accept() completes.
ManagerConnect(websocket, client_id, client_type) ==
    /\ call.n < MaxCalls
    /\ active_connections' = ConnectUsers(active_connections, websocket, client_id, client_type)
    /\ device_connections' = ConnectDevices(device_connections, websocket, client_id, client_type)
    /\ call' = [op |-> "connect", websocket |-> websocket, client_id |-> client_id,
                client_type |-> client_type,
                present |-> Registered(client_id, client_type), n |-> call.n + 1]
    /\ UNCHANGED <<db_devices, db_sensor_data, dash, dev, req, workload>>

\* manager.disconnect(client_id, client_type)
ManagerDisconnect(client_id, client_type) ==
    /\ call.n < MaxCalls
    /\ active_connections' = DisconnectUsers(active_connections, client_id, client_type)
    /\ device_connections' = DisconnectDevices(device_connections, client_id, client_type)
    /\ call' = [op |-> "disconnect", websocket |-> NoConn, client_id |-> client_id,
                client_type |-> client_type,
                present |-> Registered(client_id, client_type), n |-> call.n + 1]
    /\ UNCHANGED <<db_devices, db_sensor_data, dash, dev, req, workload>>

ManagerNext ==
    \E client_id \in ClientIds, client_type \in ClientTypes :
        \/ \E websocket \in Handles : ManagerConnect(websocket, client_id, client_type)
        \/ ManagerDisconnect(client_id, client_type)

\* ------------------------------------------------------------ the system
(* What the clients of a run do: how many dashboard and device connections
   are opened, for which device ids, which frames the devices send, and
   whether the command endpoints are called. *)
ReconnectWorkload ==    \* one device reconnecting, one dashboard watching
    [dashboards |-> NumDashConns - 1, devices |-> NumDevConns, device_ids |-> {"d1"},
     frames |-> {}, requests |-> FALSE]

TelemetryWorkload ==    \* one device sending every kind of frame to all the dashboards
    [dashboards |-> NumDashConns, devices |-> NumDevConns - 1, device_ids |-> {"d1"},
     frames |-> Frames, requests |-> FALSE]

AdmissionWorkload ==    \* devices connecting with any device id and token
    [dashboards |-> 0, devices |-> NumDevConns, device_ids |-> DeviceIds,
     frames |-> {}, requests |-> FALSE]

CommandWorkload ==      \* commands to a device that connects and disconnects
    [dashboards |-> 0, devices |-> NumDevConns - 1, device_ids |-> DeviceIds,
     frames |-> {}, requests |-> TRUE]

SessionWorkload ==      \* one device session, its frames of every kind, the dashboards
    [dashboards |-> NumDashConns - 1, devices |-> 1, device_ids |-> {"d1"},
     frames |-> SessionFrames, requests |-> FALSE]

RegistryWorkload ==     \* no client: the manager's methods are called directly
    [dashboards |-> 0, devices |-> 0, device_ids |-> {}, frames |-> {},
     requests |-> FALSE]

Workloads == {ReconnectWorkload, TelemetryWorkload, AdmissionWorkload, CommandWorkload,
              SessionWorkload, RegistryWorkload}

Init ==
    /\ workload \in Workloads
    /\ active_connections = <<>>
    /\ device_connections = [d \in DeviceIds |-> NoConn]
    /\ db_devices = [d \in StoredDevices |->
                       [status |-> "offline", last_seen |-> NoConn,
                        firmware_version |-> DefaultFirmwareVersion]]
    /\ db_sensor_data = <<>>
    /\ dash = [u \in DashConns |-> DashIdle]
    /\ dev = [c \in DevConns |-> DevIdle]
    /\ req = ReqIdle
    /\ call = NoCall

\* The life of a dashboard connection that ends by the client closing it.
DashLifeNext ==
    \E u \in DashConns :
        \/ \E user_id \in Users : DashOpen(u, user_id)
        \/ DashAccept(u)
        \/ DashClientClose(u)
        \/ DashDisconnect(u)

\* A dashboard client that stops reading, or whose handler dies.
DashFaultNext ==
    \E u \in DashConns :
        \/ DashStall(u)
        \/ DashRaise(u)

DashNext == DashLifeNext \/ DashFaultNext

\* The life of a device connection: admission, registration, disconnection.
ConnectionNext ==
    \E c \in DevConns :
        \/ \E device_id \in DeviceIds, auth_token \in Tokens :
              DevOpen(c, device_id, auth_token)
        \/ DevVerify(c)
        \/ DevAccept(c)
        \/ DevSetOnline(c)
        \/ DevClientDisconnect(c)
        \/ DevSetOffline(c)

\* The message loop of a device connection and the sends of its broadcasts.
FrameNext ==
    \E c \in DevConns :
        \/ \E f \in Frames \cup ForeignFrames : DevReceive(c, f)
        \/ DevInsert(c)
        \/ DevUpdateFirmware(c)
        \/ DevBroadcastSend(c)

DevNext == ConnectionNext \/ FrameNext

ReqNext ==
    \/ \E user \in Users, device_id \in DeviceIds :
          \/ ReqStart("control_pin", user, device_id, None)
          \/ \E firmware_id \in FirmwareIds :
                ReqStart("trigger_ota_update", user, device_id, firmware_id)
    \/ ReqFindDevice
    \/ ReqFindFirmware
    \/ ReqSend

Next == DashNext \/ DevNext \/ ReqNext

Spec == Init /\ [][Next]_vars

\* Device connections alone: no dashboard is connected and no frame is sent.
AdmissionInit == Init /\ workload = AdmissionWorkload
AdmissionSpec == AdmissionInit /\ [][ConnectionNext]_vars

\* The command endpoints beside a device connection.
CommandInit == Init /\ workload = CommandWorkload
CommandSpec == CommandInit /\ [][ConnectionNext \/ ReqNext]_vars

\* The two methods of the manager that change the registries, called directly.
RegistryInit == Init /\ workload = RegistryWorkload
RegistrySpec == RegistryInit /\ [][ManagerNext]_vars

\* Device sessions and the dashboards they broadcast to.
SessionInit == Init /\ workload = SessionWorkload
SessionSpec == SessionInit /\ [][DashLifeNext \/ DevNext]_vars

(* The event loop runs every task that is ready: a task resumes once the
   operation it awaits has completed (the store answers, a socket that is
   open and read by its client takes the frame).  What clients do (open,
   send, stall, close) is under no obligation. *)
Fairness ==
    /\ \A u \in DashConns : WF_vars(DashAccept(u) \/ DashDisconnect(u))
    /\ \A c \in DevConns :
          WF_vars(DevVerify(c) \/ DevAccept(c) \/ DevSetOnline(c) \/ DevInsert(c)
                  \/ DevUpdateFirmware(c) \/ DevSetOffline(c) \/ DevBroadcastSend(c))
    /\ WF_vars(ReqFindDevice \/ ReqFindFirmware \/ ReqSend)

FairSpec == Spec /\ Fairness

\* ------------------------------------------------------------ the claims
\* A status update of device d is in flight (between a registry mutation and
\* its paired update_one), or one was lost to a store failure.
StatusUpdatePending(d) ==
    \E c \in DevConns :
        /\ dev[c].device_id = d
        /\ \/ dev[c].pc \in {"update_online", "update_offline"}
           \/ dev[c].exc = "StoreError"

\* C1: outside the window between a registry mutation and its paired status
\* update, the stored status of every device is online if and only if the
\* device partition of the registry holds a handle for it.
C1_StatusIffRegistered ==
    \A d \in StoredDevices :
        ~StatusUpdatePending(d) =>
            (db_devices[d].status = "online" <=> device_connections[d] # NoConn)

\* C2: when a device reconnects before the older connection's cleanup has run
\* (the newer registration replaced the older handle), then once that cleanup
\* and the newer admission have both completed, and while the newer
\* connection is open, the registry maps the device to the newer handle and
\* the stored status is online.
C2_ReconnectKeepsNewer ==
    \A a, b \in DevConns :
        ( /\ dev[a].admitted /\ dev[b].admitted
          /\ dev[a].device_id = dev[b].device_id
          /\ dev[a].seq < dev[b].seq
          /\ dev[b].evicted = a
          /\ dev[a].pc = "returned"
          /\ dev[b].pc = "receive_text" )
        => /\ device_connections[dev[b].device_id] = b
           /\ db_devices[dev[b].device_id].status = "online"

\* The (device_id, token) pair connection c presented matches a device record.
CredentialsMatch(c) ==
    /\ dev[c].device_id \in StoredDevices
    /\ DeviceToken[dev[c].device_id] = dev[c].auth_token

\* C3: a connection attempt whose (device_id, token) pair matches no device
\* record is closed with code 4001 when the lookup answers; it is never
\* registered, never starts a broadcast or a cleanup, and its steps leave both
\* registries and the store unchanged; so every handle in the device
\* partition belongs to a connection that passed the token check.
C3_RejectedAttemptLeavesNoTrace ==
    /\ [](\A c \in DevConns :
            (dev[c].pc # "idle" /\ ~CredentialsMatch(c)) =>
                /\ dev[c].pc \in {"find_one", "closed", "raised"}
                /\ dev[c].pc = "closed" => dev[c].close_code = 4001
                /\ dev[c].pc = "raised" => dev[c].exc = "StoreError"
                /\ ~dev[c].admitted
                /\ dev[c].bc = NoBroadcast
                /\ dev[c].cleanups = 0)
    /\ [](\A d \in DeviceIds :
            device_connections[d] # NoConn =>
                /\ dev[device_connections[d]].device_id = d
                /\ CredentialsMatch(device_connections[d]))
    /\ [][\A c \in DevConns :
            (dev[c].pc = "find_one" /\ ~CredentialsMatch(c) /\ dev'[c] # dev[c]) =>
                UNCHANGED <<active_connections, device_connections, db_devices,
                            db_sensor_data, dash>>]_vars

\* A rejected attempt: the right device id with another device's token.
C3_Witness ==
    \E c \in DevConns :
        /\ dev[c].pc = "closed"
        /\ dev[c].close_code = 4001
        /\ dev[c].device_id \in StoredDevices
        /\ dev[c].auth_token # DeviceToken[dev[c].device_id]
        /\ \E x \in DevConns : device_connections[dev[c].device_id] = x
        /\ db_devices[dev[c].device_id].status = "online"

\* C4: every admitted session whose task has exited (the store never having
\* failed it) ran the disconnect sequence exactly once, whatever ended it.
C4_CleanupExactlyOnce ==
    \A c \in DevConns :
        ( /\ dev[c].admitted
          /\ dev[c].pc \in {"returned", "raised"}
          /\ dev[c].exc # "StoreError" )
        => dev[c].cleanups = 1

\* C5: a broadcast in which the send to one handle raised has still sent the
\* message to every other handle registered when it began, and has returned
\* normally to its caller.
C5_BroadcastSurvivesFailedSend ==
    \A c \in DevConns :
        ( /\ dev[c].bc.ended # None
          /\ Cardinality(dev[c].bc.start) >= 2
          /\ Cardinality(dev[c].bc.failed) = 1 ) =>
            /\ dev[c].bc.ended = "returned"
            /\ (dev[c].bc.start \ dev[c].bc.failed) \subseteq dev[c].bc.sent

\* C6: a broadcast that is sending always comes to its end (so the handles
\* after a stalled one get the message and the device task reads on).
C6_StalledRecipientDoesNotBlock ==
    \A c \in DevConns : (dev[c].pc = "send_json") ~> (dev[c].bc.ended # None)

\* C7: after a frame that cannot be decoded as an object, or an object with no
\* type, the connection is still open and waits for its next frame.
DecodeErrors == {"KeyError", "JSONDecodeError", "AttributeError"}
C7_MalformedFrameIsDropped ==
    \A c \in DevConns :
        ( \/ dev[c].cause = "frame" /\ dev[c].exc \in DecodeErrors
          \/ /\ dev[c].admitted
             /\ dev[c].message.wire = "object" /\ dev[c].message.type = None
             /\ dev[c].cause = None )
        => dev[c].pc = "receive_text"

\* The step in which an endpoint calls send_to_device: its lookups have answered
\* and found their records.
SendToDeviceCalled ==
    /\ req.pc \in {"find_device", "find_firmware"}
    /\ req'.pc \in {"send_json", "returned"}
    /\ req'.status_code # 404
    /\ req'.exc # "StoreError"

\* C8: send_to_device for a device_id with no handle in the device partition
\* sends nothing, leaves both partitions (and everything else) unchanged and
\* returns to its caller without raising.
C8_SendToAbsentDeviceIsNoOp ==
    [][(SendToDeviceCalled /\ device_connections[req.device_id] = NoConn) =>
          /\ req'.pc = "returned"
          /\ req'.exc = None
          /\ req'.target = NoConn
          /\ ~req'.delivered
          /\ UNCHANGED <<active_connections, device_connections, db_devices,
                         db_sensor_data, dash, dev>>]_vars

\* A command for a registered device that has no handle returned, while another
\* device holds one.
C8_Witness ==
    /\ req.pc = "returned"
    /\ req.device_id \in StoredDevices
    /\ req.exc = None /\ req.status_code = 200
    /\ req.target = NoConn /\ ~req.delivered
    /\ device_connections[req.device_id] = NoConn
    /\ \E d \in DeviceIds : device_connections[d] # NoConn

\* The records the endpoint looks up exist: the device is the caller's, and
\* (for an OTA update) the firmware is stored.
RecordsFound ==
    /\ req.device_id \in StoredDevices
    /\ DeviceOwner[req.device_id] = req.user
    /\ req.op = "trigger_ota_update" => req.firmware_id \in StoredFirmware

C10_StatusEventMatchesState ==
    \A c \in DevConns :
        (dev[c].pc = "send_json" /\ dev[c].bc.message.type = "device_status") =>
            /\ device_connections[dev[c].device_id] # NoConn
                  <=> dev[c].bc.message.status = "online"
            /\ db_devices[dev[c].device_id].status = dev[c].bc.message.status

\* The reading and the event the loop body builds from the sensor_data frame
\* that connection c holds in `message`.
FrameReading(c) == [device_id |-> dev[c].device_id, data |-> MessageData(dev[c].message)]
FrameSensorEvent(c) == SensorEvent(dev[c].device_id, MessageData(dev[c].message))

\* C11: once the insert of a sensor_data frame is no longer awaited, the store
\* holds exactly one reading (d, p) for it and the broadcast of the frame's
\* event (d, p) has been started after it; when that broadcast has ended, it
\* returned and every dashboard handle registered at its start was sent the event.
C11_SensorFrameStoredThenBroadcast ==
    \A c \in DevConns :
        ( /\ dev[c].message.wire = "object"
          /\ dev[c].message.type = "sensor_data"
          /\ dev[c].pc # "insert_one" )
        => /\ Cardinality({i \in DOMAIN db_sensor_data :
                              db_sensor_data[i] = FrameReading(c)}) = 1
           /\ dev[c].bc.site = "frame"
           /\ dev[c].bc.message = FrameSensorEvent(c)
           /\ dev[c].bc.ended # None =>
                 /\ dev[c].bc.ended = "returned"
                 /\ dev[c].bc.start \subseteq dev[c].bc.sent

\* The event the loop body builds from the firmware_update_status frame m of
\* connection c.
FrameFirmwareEvent(c, m) == FirmwareEvent(dev[c].device_id, m.status, m.version)

\* C12: the step that takes a firmware_update_status frame whose status is not
\* 'success' leaves db.devices unchanged and starts the broadcast of the
\* frame's event; for a frame whose status is 'success', the step that resumes
\* from update_one has stored the reported version and starts that broadcast;
\* and a broadcast of such an event that has ended returned, having sent the
\* event to every dashboard handle registered at its start.
C12_FirmwareVersionIffSuccess ==
    /\ [][\A c \in DevConns :
            /\ ( /\ dev[c].pc = "receive_text"
                 /\ dev'[c] # dev[c]
                 /\ dev'[c].pc # "update_offline"
                 /\ dev'[c].cause # "frame"
                 /\ dev'[c].message.wire = "object"
                 /\ dev'[c].message.type = "firmware_update_status"
                 /\ dev'[c].message.status # "success" )
               => /\ db_devices' = db_devices
                  /\ dev'[c].bc.site = "frame"
                  /\ dev'[c].bc.message = FrameFirmwareEvent(c, dev'[c].message)
                  /\ dev'[c].pc \in {"send_json", "receive_text"}
            /\ ( /\ dev[c].pc = "update_firmware"
                 /\ dev'[c] # dev[c] )
               => /\ db_devices'[dev[c].device_id].firmware_version =
                        dev[c].message.version
                  /\ dev'[c].bc.site = "frame"
                  /\ dev'[c].bc.message = FrameFirmwareEvent(c, dev[c].message)
                  /\ dev'[c].pc \in {"send_json", "receive_text"}]_vars
    /\ [](\A c \in DevConns :
            ( /\ dev[c].bc.message.type = "firmware_update_status"
              /\ dev[c].bc.ended # None )
            => /\ dev[c].bc.ended = "returned"
               /\ dev[c].bc.start \subseteq dev[c].bc.sent)

\* Connection c takes a JSON object whose type is neither sensor_data nor
\* firmware_update_status in this step.
TakesOtherFrame(c) ==
    /\ dev[c].pc = "receive_text"
    /\ dev'[c] # dev[c]
    /\ dev'[c].pc # "update_offline"
    /\ dev'[c].cause # "frame"
    /\ dev'[c].message.wire = "object"
    /\ dev'[c].message.type \notin {"sensor_data", "firmware_update_status"}

\* C13: the step that takes a JSON object frame of another type (or of none)
\* changes nothing but the handler's `message`: both registries, db.devices,
\* db.sensor_data, every dashboard, every other device task and the command
\* in progress are unchanged, no broadcast is started, and the connection
\* awaits its next frame.
C13_OtherFrameIsNoOp ==
    [][\A c \in DevConns :
          TakesOtherFrame(c) =>
              /\ UNCHANGED <<active_connections, device_connections, db_devices,
                             db_sensor_data, dash, req>>
              /\ dev'[c] = [dev[c] EXCEPT !.message = dev'[c].message]
              /\ dev'[c].pc = "receive_text"
              /\ dev'[c].bc = dev[c].bc
              /\ \A x \in DevConns \ {c} : dev'[x] = dev[x]]_vars

\* A ping frame was taken by an online, registered device while a dashboard is
\* registered; the last broadcast is still the one that announced it online.
C13_Witness ==
    \E c \in DevConns :
        /\ dev[c].pc = "receive_text"
        /\ dev[c].message.type = "ping"
        /\ device_connections[dev[c].device_id] = c
        /\ db_devices[dev[c].device_id].status = "online"
        /\ DictLen(active_connections) >= 1
        /\ dev[c].bc.site = "online"
        /\ dev[c].bc.sent # {}

\* C14: when the awaited insert of a sensor reading fails, the step that
\* resumes from it still starts the broadcast of the frame's sensor_data event,
\* and the session goes on: its task has not ended, its registry entry and the
\* stored status of its device are as before.
C14_InsertFailureStillBroadcasts ==
    [][\A c \in DevConns :
          ( /\ dev[c].pc = "insert_one"
            /\ dev'[c] # dev[c]
            /\ db_sensor_data' = db_sensor_data )
          => /\ dev'[c].bc.site = "frame"
             /\ dev'[c].bc.message = FrameSensorEvent(c)
             /\ dev'[c].pc \in {"send_json", "receive_text"}
             /\ device_connections' = device_connections
             /\ db_devices' = db_devices]_vars

\* C15: a session in whose broadcast (begun while its device was connected) a
\* send to a dashboard raised is still running, its device still has its
\* registry entry and its stored status is still online.
C15_RecipientFailureAbsorbed ==
    \A c \in DevConns :
        ( /\ dev[c].bc.failed # {}
          /\ dev[c].bc.site # "offline" )
        => /\ dev[c].pc \in {"send_json", "receive_text", "insert_one", "update_firmware"}
           /\ device_connections[dev[c].device_id] # NoConn
           /\ db_devices[dev[c].device_id].status = "online"

\* C16: no broadcast fails because the dashboard partition changed while it
\* was suspended in a send, and a broadcast that returned has sent the message
\* to every handle that was registered when it started.
C16_BroadcastIteratesSnapshot ==
    \A c \in DevConns :
        /\ dev[c].cause # "iterate"
        /\ dev[c].bc.ended = "returned" => dev[c].bc.start \subseteq dev[c].bc.sent

\* The event the loop body builds from the frame connection c holds in `message`.
FrameEvent(c) ==
    IF dev[c].message.type = "sensor_data" THEN FrameSensorEvent(c)
    ELSE FrameFirmwareEvent(c, dev[c].message)

\* C17: a connection takes a frame only while it awaits receive_text, with no
\* send of a broadcast of its own outstanding; and whatever it awaits for a
\* frame (the insert, the firmware update, a send of the frame's event) is for
\* the frame it took last.  So the events of one connection are sent in the
\* order of its frames.
C17_FramesHandledOneAtATime ==
    /\ [][\A c \in DevConns :
            dev'[c].message # dev[c].message =>
                /\ dev[c].pc = "receive_text"
                /\ dev[c].bc.target = NoConn]_vars
    /\ [](\A c \in DevConns :
            /\ dev[c].pc = "insert_one" => dev[c].message.type = "sensor_data"
            /\ dev[c].pc = "update_firmware" =>
                  /\ dev[c].message.type = "firmware_update_status"
                  /\ dev[c].message.status = "success"
            /\ (dev[c].pc = "send_json" /\ dev[c].bc.site = "frame") =>
                  dev[c].bc.message = FrameEvent(c))

\* The event of a second frame (a firmware report) is being sent, after the
\* reading of an earlier sensor_data frame was stored.
C17_Witness ==
    \E c \in DevConns :
        /\ dev[c].pc = "send_json"
        /\ dev[c].bc.site = "frame"
        /\ dev[c].bc.message.type = "firmware_update_status"
        /\ \E i \in DOMAIN db_sensor_data :
              db_sensor_data[i].device_id = dev[c].device_id

\* Some connection that passed the token check for device d.
AdmittedFor(d) ==
    \E c \in DevConns :
        dev[c].admitted /\ CredentialsMatch(c) /\ dev[c].device_id = d

\* C20: every event a connection broadcasts carries the device_id it was
\* admitted under, every stored reading carries the device_id of an admitted
\* connection, and the record of a device in db.devices is only ever written
\* by a step of a connection admitted under that device's id, whatever
\* device_id the frames name.
C20_WritesCarryAdmittedDeviceId ==
    /\ [](\A c \in DevConns :
            dev[c].bc.message.type # None =>
                /\ dev[c].admitted /\ CredentialsMatch(c)
                /\ dev[c].bc.message.device_id = dev[c].device_id)
    /\ [](\A i \in DOMAIN db_sensor_data : AdmittedFor(db_sensor_data[i].device_id))
    /\ [][\A d \in StoredDevices :
            db_devices'[d] # db_devices[d] =>
                \E c \in DevConns :
                    /\ dev[c].admitted /\ CredentialsMatch(c)
                    /\ dev[c].device_id = d
                    /\ dev'[c] # dev[c]]_vars

\* A sensor_data frame naming device d2 was handled on a connection of d1: the
\* reading and the event delivered to a dashboard are d1's, d2's record is untouched.
C20_Witness ==
    \E c \in DevConns :
        /\ dev[c].pc = "receive_text"
        /\ dev[c].message.type = "sensor_data"
        /\ dev[c].message.device_id = "d2"
        /\ dev[c].device_id = "d1"
        /\ \E i \in DOMAIN db_sensor_data : db_sensor_data[i] = FrameReading(c)
        /\ dev[c].bc.message = FrameSensorEvent(c)
        /\ dev[c].bc.sent # {}
        /\ db_devices["d2"].firmware_version = DefaultFirmwareVersion

\* dict.get(k): the handle under key k, NoConn when there is none.
DictGet(d, k) ==
    IF DictHas(d, k) THEN d[CHOOSE i \in DOMAIN d : d[i].key = k].ws ELSE NoConn

\* The entries of every id but client_id are where and what they were.
OtherUsersUnchanged(client_id) ==
    /\ \A i \in DOMAIN active_connections :
          active_connections[i].key # client_id =>
              /\ i \in DOMAIN active_connections'
              /\ active_connections'[i] = active_connections[i]
    /\ \A k \in ClientIds \ {client_id} :
          DictGet(active_connections', k) = DictGet(active_connections, k)

OtherDevicesUnchanged(client_id) ==
    \A d \in DeviceIds \ {client_id} : device_connections'[d] = device_connections[d]

\* C18: a call of disconnect(id, kind) leaves no entry for id in the partition
\* of that kind, changes neither registry when id had none, leaves every other
\* id's entry and the whole other partition as they were, and calling it again
\* would change nothing; it can be called in every state (it never raises).
C18_DisconnectIdempotentTotal ==
    /\ [][call'.n # call.n /\ call'.op = "disconnect" =>
            LET id == call'.client_id
                ty == call'.client_type
            IN  /\ ty = "device" =>
                      /\ device_connections'[id] = NoConn
                      /\ OtherDevicesUnchanged(id)
                      /\ active_connections' = active_connections
                /\ ty = "user" =>
                      /\ ~DictHas(active_connections', id)
                      /\ OtherUsersUnchanged(id)
                      /\ device_connections' = device_connections
                /\ ~call'.present => UNCHANGED <<active_connections, device_connections>>
                /\ DisconnectUsers(active_connections', id, ty) = active_connections'
                /\ DisconnectDevices(device_connections', id, ty) = device_connections']_vars
    /\ [](call.n < MaxCalls =>
            \A id \in ClientIds, ty \in ClientTypes : ENABLED ManagerDisconnect(id, ty))

\* disconnect was called for a dashboard id that had no entry, while the device
\* partition holds a handle under the same string.
C18_Witness ==
    /\ call.op = "disconnect"
    /\ call.client_type = "user"
    /\ ~call.present
    /\ device_connections[call.client_id] # NoConn
    /\ \E k \in ClientIds \ {call.client_id} : DictHas(active_connections, k)

\* C19: after connect(channel, id, kind) the partition of that kind maps id to
\* the new channel in exactly one entry (a prior handle is replaced), and every
\* other id's entry and the whole other partition are as they were.
C19_ConnectLastWriterWins ==
    [][call'.n # call.n /\ call'.op = "connect" =>
          LET id == call'.client_id
              ty == call'.client_type
          IN  /\ ty = "device" =>
                    /\ device_connections'[id] = call'.websocket
                    /\ OtherDevicesUnchanged(id)
                    /\ active_connections' = active_connections
              /\ ty = "user" =>
                    /\ DictGet(active_connections', id) = call'.websocket
                    /\ Cardinality({i \in DOMAIN active_connections' :
                                       active_connections'[i].key = id}) = 1
                    /\ DictLen(active_connections') =
                          DictLen(active_connections) + (IF call'.present THEN 0 ELSE 1)
                    /\ OtherUsersUnchanged(id)
                    /\ device_connections' = device_connections]_vars

\* connect replaced a dashboard's handle by another one, while the device
\* partition holds a third handle under the same string.
C19_Witness ==
    /\ call.op = "connect"
    /\ call.client_type = "user"
    /\ call.present
    /\ DictGet(active_connections, call.client_id) = call.websocket
    /\ device_connections[call.client_id] \notin {NoConn, call.websocket}

====
